---- MODULE Spec2Model ----
(***************************************************************************)
(* Kukaya offline cache controller.                                        *)
(*                                                                         *)
(* Two service-worker variants are modelled:                               *)
(*   "main"  the worker with the clock-derived cache name, the GET guard,  *)
(*           stale-while-revalidate and the push handler;                  *)
(*   "pwa"   pwa/service-worker.js, fixed cache name, cache-first fetch.   *)
(* The host runtime (Cache Storage, network, worker lifecycle) is the      *)
(* environment: its answers are nondeterministic choices.                  *)
(***************************************************************************)
EXTENDS Integers, Sequences, FiniteSets, TLC

VARIABLES
    variant,         \* which worker script is registered
    clock,           \* last value read from new Date().getTime()
    CACHE_NAME,      \* the script's CACHE_NAME constant of this evaluation
    cacheKeys,       \* Cache Storage: cache names in creation order
    entries,         \* Cache Storage: name -> (url -> stored response)
    swState,         \* lifecycle state of the worker
    skipWaitingFlag, \* set by self.skipWaiting()
    installed,       \* name the last successful install populated
    toDelete,        \* activate: names still to be deleted
    req,             \* fetch events, one record per request
    pushLog,         \* push events so far, each with what its handler did
    localStorage,    \* js/api.js: the items 'access' and 'refresh'
    af,              \* js/api.js: the authFetch call
    loggedOut,       \* js/api.js: logout() has returned, no login since
    currentUser,     \* pwa/js/auth.js: the variable currentUser
    authCall,        \* pwa/js/auth.js: the call of one of its functions
    location         \* pwa/js/auth.js: window.location.href

vars == <<variant, clock, CACHE_NAME, cacheKeys, entries, swState,
          skipWaitingFlag, installed, toDelete, req, pushLog,
          localStorage, af, loggedOut, currentUser, authCall, location>>

swVars == <<variant, clock, CACHE_NAME, cacheKeys, entries, swState,
            skipWaitingFlag, installed, toDelete, req>>

pushVars == <<pushLog>>

apiVars == <<localStorage, af, loggedOut>>

authVars == <<currentUser, authCall, location>>

pageVars == <<apiVars, authVars>>

-----------------------------------------------------------------------------
(* Bounds *)

MaxClock == 3        \* largest clock value (script evaluations are bounded)
MaxReq   == 1        \* requests the pages issue in one behaviour
MaxVer   == 2        \* distinct contents the network serves for one URL
MaxPush  == 3        \* push events delivered

-----------------------------------------------------------------------------
(* Cache names *)

PwaName == <<"Kukaya-v1.0">>

MainName(t) == <<"Kukaya-v1.0-", t>>

Names == {PwaName} \cup {MainName(t) : t \in 1..MaxClock}

\* names of caches an earlier deployment may have left in storage
PreNames == {PwaName, MainName(1)}

\* the time of the first script evaluation (later than any earlier name)
FirstClock == 2

-----------------------------------------------------------------------------
(* The asset sets *)

MainUrlsToCache ==
    <<"/index.html", "/login.html", "/dashboard.html", "/offline.html",
      "/css/style.css", "/js/api.js", "/js/auth.js", "/js/ui.js",
      "/manifest.json", "/favicon.ico">>

PwaUrlsToCache ==
    <<"/index.html", "/login.html", "/dashboard.html",
      "/css/style.css", "/js/api.js", "/js/auth.js", "/js/ui.js",
      "/manifest.json">>

urlsToCache == IF variant = "main" THEN MainUrlsToCache ELSE PwaUrlsToCache

Range(s) == {s[i] : i \in 1..Len(s)}

OfflineUrl == "/offline.html"

\* URLs the pages request: an asset and a URL outside the asset set
RequestUrls == {"/index.html", "/api/items"}

Urls == Range(MainUrlsToCache) \cup Range(PwaUrlsToCache) \cup RequestUrls

-----------------------------------------------------------------------------
(* Responses *)

Vers == 1..MaxVer

undefined == [url |-> "", status |-> 0, type |-> "none", ver |-> 0]

Response(u, s, t, v) == [url |-> u, status |-> s, type |-> t, ver |-> v]

\* what the network may answer to a request for u when it answers at all
NetResponses(u) ==
    {Response(u, 200, "basic", v) : v \in Vers}
        \cup {Response(u, 404, "basic", 1),
              Response(u, 200, "cors", 1),
              Response(u, 0, "opaque", 1)}

EmptyCache == [u \in Urls |-> undefined]


OfflineOnly ==
    [EmptyCache EXCEPT ![OfflineUrl] = Response(OfflineUrl, 200, "basic", 1)]

\* contents found in a cache that is already in storage: Cache Storage
\* belongs to the origin and outlives deployments, so a cache may be empty
\* or hold the offline page of an earlier release
PreContents == {EmptyCache, OfflineOnly}

-----------------------------------------------------------------------------
(* Cache Storage interface *)

Has(keys, name) == \E i \in 1..Len(keys) : keys[i] = name

\* caches.open(name): creates the cache when it is absent
CachesOpen(keys, name) == IF Has(keys, name) THEN keys ELSE Append(keys, name)

\* caches.delete(name)
CachesDelete(keys, name) == SelectSeq(keys, LAMBDA n : n # name)

\* cache.match(request): only GET requests match
CacheMatch(cache, url, method) ==
    IF method # "GET" THEN undefined ELSE cache[url]

\* caches.match(request): the first hit over all caches in creation order
RECURSIVE CachesMatchFrom(_, _, _, _, _)
CachesMatchFrom(i, keys, ents, url, method) ==
    IF i > Len(keys) THEN undefined
    ELSE IF CacheMatch(ents[keys[i]], url, method) # undefined
         THEN CacheMatch(ents[keys[i]], url, method)
         ELSE CachesMatchFrom(i + 1, keys, ents, url, method)

CachesMatch(keys, ents, url, method) == CachesMatchFrom(1, keys, ents, url, method)

\* CachePut of a cache that keeps the entry it already has (cache.add of a
\* first-writer-wins store)
CachePutIfAbsent(keys, ents, name, url, response) ==
    IF Has(keys, name) /\ ents[name][url] = undefined
    THEN [ents EXCEPT ![name][url] = response] ELSE ents

\* cache.put(request, response) on the cache called name; a cache that was
\* deleted from storage after it was opened is no longer reachable by name
CachePut(keys, ents, name, url, response) ==
    IF Has(keys, name) THEN [ents EXCEPT ![name][url] = response] ELSE ents

\* cache.addAll(urls): all requests are fetched, then stored in one batch
AddAll(ents, name, urls, v) ==
    [ents EXCEPT ![name] =
        [u \in Urls |-> IF u \in Range(urls)
                        THEN Response(u, 200, "basic", v) ELSE @[u]]]

-----------------------------------------------------------------------------
(* The pages' scripts: values *)

\* localStorage.getItem of an item that is not stored: null
NoItem == "<null>"

\* values the server issues as data.access and data.refresh
AccessTokens == {"a1", "a2"}

RefreshTokens == {"r1", "r2"}

\* no Authorization header on the request
NoHeader == "<none>"

\* let currentUser = null
NoUser == "<null>"

Users == {"u1"}

NoAuthFetch == [pc |-> "idle", auth |-> NoHeader, result |-> "none"]

NoAuthCall == [fn |-> "none", pc |-> "idle", result |-> "none",
               profile |-> "none"]

\* both scripts as their evaluation leaves them, nothing stored
PageAtRest ==
    /\ localStorage = [access |-> NoItem, refresh |-> NoItem]
    /\ af = NoAuthFetch
    /\ loggedOut = FALSE
    /\ currentUser = NoUser
    /\ authCall = NoAuthCall
    /\ location = "page"

-----------------------------------------------------------------------------
(* Script evaluation *)

\* const CACHE_NAME = ... evaluated at time t
EvalCacheName(v, t) == IF v = "main" THEN MainName(t) ELSE PwaName

\* an intercepted request: the event's request (url, method, mode), who
\* answers it (by), the handler's locals (cache, cachedResponse, the network
\* outcome net / netFailed, fetched: fetch(event.request) was called) and
\* what the page received (resp, src); issuedAfter records the requests
\* whose revalidation had been written when this one was issued
IdleReq ==
    [pc |-> "idle", url |-> "", method |-> "", mode |-> "", by |-> "none",
     cache |-> PwaName, cachedResponse |-> undefined, fetched |-> FALSE,
     net |-> undefined, netFailed |-> FALSE, resp |-> undefined,
     src |-> "none", issuedAfter |-> {}]

Reqs == 1..MaxReq

\* orderings of the caches an earlier deployment left behind
PreKeys == {<<>>, <<PwaName>>, <<MainName(1)>>, <<PwaName, MainName(1)>>}

Init ==
    /\ variant \in {"main", "pwa"}
    /\ clock = FirstClock
    /\ CACHE_NAME = EvalCacheName(variant, clock)
    /\ cacheKeys \in PreKeys
    /\ \E c \in [PreNames -> PreContents] :
          entries = [n \in Names |->
                        IF Has(cacheKeys, n) THEN c[n] ELSE EmptyCache]
    /\ swState = "parsed"
    /\ skipWaitingFlag = FALSE
    /\ installed = <<>>
    /\ toDelete = {}
    /\ req = [r \in Reqs |-> IdleReq]
    /\ pushLog = <<>>
    /\ PageAtRest

-----------------------------------------------------------------------------
(* install *)

\* the install event is dispatched: caches.open is called, then skipWaiting
InstallEvent ==
    /\ swState = "parsed"
    /\ swState' = "installing"
    /\ skipWaitingFlag' = (variant = "main")
    /\ UNCHANGED <<variant, clock, CACHE_NAME, cacheKeys, entries, installed,
                   toDelete, req>>
    /\ UNCHANGED <<pushVars, pageVars>>

\* caches.open(CACHE_NAME) resolves
InstallOpen ==
    /\ swState = "installing"
    /\ cacheKeys' = CachesOpen(cacheKeys, CACHE_NAME)
    /\ swState' = "caching"
    /\ UNCHANGED <<variant, clock, CACHE_NAME, entries, skipWaitingFlag,
                   installed, toDelete, req>>
    /\ UNCHANGED <<pushVars, pageVars>>

\* cache.addAll(urlsToCache) resolves: every asset was fetched
InstallAddAllOk ==
    /\ swState = "caching"
    /\ \E v \in Vers : entries' = AddAll(entries, CACHE_NAME, urlsToCache, v)
    /\ swState' = "installed"
    /\ installed' = CACHE_NAME
    /\ UNCHANGED <<variant, clock, CACHE_NAME, cacheKeys, skipWaitingFlag,
                   toDelete, req>>
    /\ UNCHANGED <<pushVars, pageVars>>

\* cache.addAll(urlsToCache) rejects: the fetch of some asset failed, nothing
\* is stored, waitUntil rejects and the worker becomes redundant
InstallAddAllFail ==
    /\ swState = "caching"
    /\ \E failed \in SUBSET Range(urlsToCache) :
          /\ failed # {}
          /\ swState' = "redundant"
    /\ UNCHANGED <<variant, clock, CACHE_NAME, cacheKeys, entries,
                   skipWaitingFlag, installed, toDelete, req>>
    /\ UNCHANGED <<pushVars, pageVars>>

-----------------------------------------------------------------------------
(* activate *)

\* the activate event is dispatched: caches.keys is called, then clients.claim
ActivateEvent ==
    /\ swState = "installed"
    /\ swState' = "activating"
    /\ UNCHANGED <<variant, clock, CACHE_NAME, cacheKeys, entries,
                   skipWaitingFlag, installed, toDelete, req>>
    /\ UNCHANGED <<pushVars, pageVars>>

\* names the activate handler deletes
OldCaches(keys, current) == {n \in Range(keys) : n # current}

\* caches.keys() resolves; the filter selects the names to delete
ActivateKeys ==
    /\ swState = "activating"
    /\ toDelete' = OldCaches(cacheKeys, CACHE_NAME)
    /\ swState' = "deleting"
    /\ UNCHANGED <<variant, clock, CACHE_NAME, cacheKeys, entries,
                   skipWaitingFlag, installed, req>>
    /\ UNCHANGED <<pushVars, pageVars>>

\* one caches.delete(name) resolves
ActivateDelete ==
    /\ swState = "deleting"
    /\ \E n \in toDelete :
          /\ cacheKeys' = CachesDelete(cacheKeys, n)
          /\ entries' = [entries EXCEPT ![n] = EmptyCache]
          /\ toDelete' = toDelete \ {n}
    /\ UNCHANGED <<variant, clock, CACHE_NAME, swState, skipWaitingFlag,
                   installed, req>>
    /\ UNCHANGED <<pushVars, pageVars>>

\* Promise.all resolves, waitUntil settles: the worker is activated
ActivateDone ==
    /\ swState = "deleting"
    /\ toDelete = {}
    /\ swState' = "activated"
    /\ UNCHANGED <<variant, clock, CACHE_NAME, cacheKeys, entries,
                   skipWaitingFlag, installed, toDelete, req>>
    /\ UNCHANGED <<pushVars, pageVars>>

-----------------------------------------------------------------------------
(* Worker restarts: the host stops an idle worker and evaluates the script *)
(* again for the next event; a failed registration is retried the same way *)

\* respondWith of slot r has not settled: the worker is kept alive
Pending(r) == req[r].pc \in {"open", "match", "wait"}

\* work of a stopped worker is dropped with it
Dropped(q) ==
    IF q.pc \in {"background", "put"} THEN [q EXCEPT !.pc = "stopped"] ELSE q

Restart ==
    /\ swState \in {"installed", "activated"}
    /\ \A r \in DOMAIN req : ~Pending(r)
    /\ \E t \in (clock + 1)..MaxClock :
          /\ clock' = t
          /\ CACHE_NAME' = EvalCacheName(variant, t)
    /\ req' = [r \in DOMAIN req |-> Dropped(req[r])]
    /\ UNCHANGED <<variant, cacheKeys, entries, swState, skipWaitingFlag,
                   installed, toDelete>>
    /\ UNCHANGED <<pushVars, pageVars>>

\* the page registers the worker again after a failed install
Retry ==
    /\ swState = "redundant"
    /\ \E t \in (clock + 1)..MaxClock :
          /\ clock' = t
          /\ CACHE_NAME' = EvalCacheName(variant, t)
    /\ swState' = "parsed"
    /\ skipWaitingFlag' = FALSE
    /\ UNCHANGED <<variant, cacheKeys, entries, installed, toDelete, req>>
    /\ UNCHANGED <<pushVars, pageVars>>

-----------------------------------------------------------------------------
(* fetch, main worker *)

Methods == {"GET", "POST"}

Modes == {"navigate", "cors"}

\* if (event.request.method !== 'GET') return;
NotHandled(method) == method # "GET"

\* Cacheable without the status and type tests
CacheableAlways(networkResponse) == networkResponse # undefined

\* Cacheable with the test the comment above it describes: not opaque
CacheableNonOpaque(networkResponse) ==
    /\ networkResponse # undefined
    /\ networkResponse.status = 200
    /\ networkResponse.type # "opaque"

\* networkResponse && status === 200 && type === 'basic'
Cacheable(networkResponse) ==
    /\ networkResponse # undefined
    /\ networkResponse.status = 200
    /\ networkResponse.type = "basic"

\* ServesCached of a network-first handler: return fetchPromise
ServesCachedNever(cachedResponse) == FALSE

\* return cachedResponse || fetchPromise: TRUE when the cached response is
\* what respondWith receives
ServesCached(cachedResponse) == cachedResponse # undefined

\* CatchValue of a handler without the offline page
CatchValueNoFallback(mode, cachedResponse, keys, ents) == cachedResponse

\* the value the catch branch resolves fetchPromise with
CatchValue(mode, cachedResponse, keys, ents) ==
    IF mode = "navigate"
    THEN CachesMatch(keys, ents, OfflineUrl, "GET")
    ELSE cachedResponse

\* respondWith settles with value x that came from source s; undefined is a
\* network error for the page
Settle(q, x, s) ==
    IF x = undefined THEN [q EXCEPT !.resp = undefined, !.src = "error"]
    ELSE [q EXCEPT !.resp = x, !.src = s]

\* requests are numbered in the order in which the pages issue them
NextRequest(r) ==
    /\ req[r].pc = "idle"
    /\ \A k \in 1..(r - 1) : req[k].pc # "idle"

\* request q was answered from the cache and the response its background
\* fetch brought has been put
Revalidated(q) == q.pc = "done" /\ q.src = "cache" /\ Cacheable(q.net)

FetchEvent(r) ==
    /\ variant = "main"
    /\ swState = "activated"
    /\ NextRequest(r)
    /\ \E u \in RequestUrls, m \in Methods, md \in Modes :
          req' = [req EXCEPT ![r] =
                    [IdleReq EXCEPT !.url = u, !.method = m, !.mode = md,
                        !.issuedAfter =
                            {k \in DOMAIN req : Revalidated(req[k])},
                        !.by = IF NotHandled(m) THEN "browser" ELSE "worker",
                        !.pc = IF NotHandled(m) THEN "passthrough" ELSE "open"]]
    /\ UNCHANGED <<variant, clock, CACHE_NAME, cacheKeys, entries, swState,
                   skipWaitingFlag, installed, toDelete>>
    /\ UNCHANGED <<pushVars, pageVars>>

\* a request the handler did not take: the browser performs it itself
PassThrough(r) ==
    /\ req[r].pc = "passthrough"
    /\ \/ \E nr \in NetResponses(req[r].url) :
             req' = [req EXCEPT ![r] =
                       [Settle(@, nr, "network") EXCEPT !.pc = "done"]]
       \/ req' = [req EXCEPT ![r] =
                       [Settle(@, undefined, "error") EXCEPT
                            !.netFailed = TRUE, !.pc = "done"]]
    /\ UNCHANGED <<variant, clock, CACHE_NAME, cacheKeys, entries, swState,
                   skipWaitingFlag, installed, toDelete>>
    /\ UNCHANGED <<pushVars, pageVars>>

\* caches.open(CACHE_NAME) resolves
FetchOpen(r) ==
    /\ req[r].pc = "open"
    /\ cacheKeys' = CachesOpen(cacheKeys, CACHE_NAME)
    /\ req' = [req EXCEPT ![r].cache = CACHE_NAME, ![r].pc = "match"]
    /\ UNCHANGED <<variant, clock, CACHE_NAME, entries, swState,
                   skipWaitingFlag, installed, toDelete>>
    /\ UNCHANGED <<pushVars, pageVars>>

\* cache.match resolves; fetch(event.request) is issued; respondWith gets
\* cachedResponse || fetchPromise
FetchMatch(r) ==
    /\ req[r].pc = "match"
    /\ LET q == req[r]
           c == CacheMatch(entries[q.cache], q.url, q.method)
       IN req' = [req EXCEPT ![r] =
                    IF ServesCached(c)
                    THEN [Settle(q, c, "cache") EXCEPT
                            !.cachedResponse = c, !.fetched = TRUE,
                            !.pc = "background"]
                    ELSE [q EXCEPT !.cachedResponse = c, !.fetched = TRUE,
                                   !.pc = "wait"]]
    /\ UNCHANGED <<variant, clock, CACHE_NAME, cacheKeys, entries, swState,
                   skipWaitingFlag, installed, toDelete>>
    /\ UNCHANGED <<pushVars, pageVars>>

\* the network answers: the then branch
FetchThen(r) ==
    /\ req[r].pc \in {"background", "wait"}
    /\ \E nr \in NetResponses(req[r].url) :
          LET q == [req[r] EXCEPT !.net = nr]
              s == IF q.pc = "wait" THEN Settle(q, nr, "network") ELSE q
          IN req' = [req EXCEPT ![r] =
                       [s EXCEPT !.pc = IF Cacheable(nr) THEN "put" ELSE "done"]]
    /\ UNCHANGED <<variant, clock, CACHE_NAME, cacheKeys, entries, swState,
                   skipWaitingFlag, installed, toDelete>>
    /\ UNCHANGED <<pushVars, pageVars>>

\* the network fails: the catch branch
FetchCatch(r) ==
    /\ req[r].pc \in {"background", "wait"}
    /\ LET q == [req[r] EXCEPT !.netFailed = TRUE]
           x == CatchValue(q.mode, q.cachedResponse, cacheKeys, entries)
           s == IF q.pc = "wait"
                THEN Settle(q, x, IF q.mode = "navigate" THEN "fallback"
                                                         ELSE "cache")
                ELSE q
       IN req' = [req EXCEPT ![r] = [s EXCEPT !.pc = "done"]]
    /\ UNCHANGED <<variant, clock, CACHE_NAME, cacheKeys, entries, swState,
                   skipWaitingFlag, installed, toDelete>>
    /\ UNCHANGED <<pushVars, pageVars>>

\* cache.put(event.request, networkResponse.clone()) completes
FetchPut(r) ==
    /\ req[r].pc = "put"
    /\ entries' = CachePut(cacheKeys, entries, req[r].cache, req[r].url,
                           req[r].net)
    /\ req' = [req EXCEPT ![r].pc = "done"]
    /\ UNCHANGED <<variant, clock, CACHE_NAME, cacheKeys, swState,
                   skipWaitingFlag, installed, toDelete>>
    /\ UNCHANGED <<pushVars, pageVars>>

-----------------------------------------------------------------------------
(* fetch, pwa worker *)

\* the handler calls respondWith for every request, whatever its method
PwaFetchEvent(r) ==
    /\ variant = "pwa"
    /\ swState = "activated"
    /\ NextRequest(r)
    /\ \E u \in RequestUrls, m \in Methods, md \in Modes :
          req' = [req EXCEPT ![r] =
                    [IdleReq EXCEPT !.url = u, !.method = m, !.mode = md,
                                    !.by = "worker", !.pc = "pwamatch"]]
    /\ UNCHANGED <<variant, clock, CACHE_NAME, cacheKeys, entries, swState,
                   skipWaitingFlag, installed, toDelete>>
    /\ UNCHANGED <<pushVars, pageVars>>

\* caches.match(event.request) resolves: response || fetch(event.request)
PwaMatch(r) ==
    /\ req[r].pc = "pwamatch"
    /\ LET q == req[r]
           c == CachesMatch(cacheKeys, entries, q.url, q.method)
       IN req' = [req EXCEPT ![r] =
                    IF c # undefined
                    THEN [Settle(q, c, "cache") EXCEPT
                            !.cachedResponse = c, !.pc = "done"]
                    ELSE [q EXCEPT !.fetched = TRUE, !.pc = "pwawait"]]
    /\ UNCHANGED <<variant, clock, CACHE_NAME, cacheKeys, entries, swState,
                   skipWaitingFlag, installed, toDelete>>
    /\ UNCHANGED <<pushVars, pageVars>>

\* the network answers
PwaThen(r) ==
    /\ req[r].pc = "pwawait"
    /\ \E nr \in NetResponses(req[r].url) :
          req' = [req EXCEPT ![r] =
                    [Settle([@ EXCEPT !.net = nr], nr, "network") EXCEPT
                        !.pc = "done"]]
    /\ UNCHANGED <<variant, clock, CACHE_NAME, cacheKeys, entries, swState,
                   skipWaitingFlag, installed, toDelete>>
    /\ UNCHANGED <<pushVars, pageVars>>

\* the value the catch branch resolves with
PwaCatchValue(keys, ents) == CachesMatch(keys, ents, OfflineUrl, "GET")

\* the network fails: caches.match('/offline.html')
PwaCatch(r) ==
    /\ req[r].pc = "pwawait"
    /\ req' = [req EXCEPT ![r] =
                 [Settle(@, PwaCatchValue(cacheKeys, entries), "fallback")
                    EXCEPT !.netFailed = TRUE, !.pc = "done"]]
    /\ UNCHANGED <<variant, clock, CACHE_NAME, cacheKeys, entries, swState,
                   skipWaitingFlag, installed, toDelete>>
    /\ UNCHANGED <<pushVars, pageVars>>

-----------------------------------------------------------------------------
Next ==
    \/ InstallEvent
    \/ InstallOpen
    \/ InstallAddAllOk
    \/ InstallAddAllFail
    \/ ActivateEvent
    \/ ActivateKeys
    \/ ActivateDelete
    \/ ActivateDone
    \/ Restart
    \/ Retry
    \/ \E r \in Reqs : FetchEvent(r)
    \/ \E r \in Reqs : PassThrough(r)
    \/ \E r \in Reqs : FetchOpen(r)
    \/ \E r \in Reqs : FetchMatch(r)
    \/ \E r \in Reqs : FetchThen(r)
    \/ \E r \in Reqs : FetchCatch(r)
    \/ \E r \in Reqs : FetchPut(r)
    \/ \E r \in Reqs : PwaFetchEvent(r)
    \/ \E r \in Reqs : PwaMatch(r)
    \/ \E r \in Reqs : PwaThen(r)
    \/ \E r \in Reqs : PwaCatch(r)

Spec == Init /\ [][Next]_vars

-----------------------------------------------------------------------------
(* push, main worker *)

JsUndefined == "<undefined>"

\* event.data of a push event: null, or a message with a text
NoData == [present |-> FALSE, text |-> ""]

PushTexts ==
    {"", "hello", "null", "{}",
     "{\"title\":\"Sale\"}",
     "{\"title\":\"Sale\",\"body\":\"Today\"}"}

PushDatas == {NoData} \cup {[present |-> TRUE, text |-> t] : t \in PushTexts}

JsValue(thr, tru, ti, bo) ==
    [threw |-> thr, truthy |-> tru, title |-> ti, body |-> bo]

\* event.data.json(): JSON.parse of the text
JsonParse(text) ==
    CASE text = "{}" -> JsValue(FALSE, TRUE, JsUndefined, JsUndefined)
      [] text = "{\"title\":\"Sale\"}" -> JsValue(FALSE, TRUE, "Sale", JsUndefined)
      [] text = "{\"title\":\"Sale\",\"body\":\"Today\"}" ->
            JsValue(FALSE, TRUE, "Sale", "Today")
      [] text = "null" -> JsValue(FALSE, FALSE, JsUndefined, JsUndefined)
      [] OTHER -> JsValue(TRUE, FALSE, JsUndefined, JsUndefined)

DefaultPush == JsValue(FALSE, TRUE, "Kukaya", "New notification")

\* const data = event.data?.json() || { title: 'Kukaya', body: ... }
PushValue(d) ==
    IF ~d.present THEN DefaultPush
    ELSE IF JsonParse(d.text).threw THEN JsonParse(d.text)
    ELSE IF JsonParse(d.text).truthy THEN JsonParse(d.text)
    ELSE DefaultPush

NoNotification == [title |-> "", body |-> "", icon |-> ""]

\* showNotification(data.title, {body: data.body, icon: '/favicon.ico'}):
\* the title is converted to a string, a missing body is the empty string
Notification(v) ==
    [title |-> IF v.title = JsUndefined THEN "undefined" ELSE v.title,
     body  |-> IF v.body = JsUndefined THEN "" ELSE v.body,
     icon  |-> "/favicon.ico"]

\* a push event is dispatched and the handler runs up to waitUntil, or throws
PushEvent ==
    /\ swState = "activated"
    /\ variant = "main"
    /\ Len(pushLog) < MaxPush
    /\ \E d \in PushDatas :
          pushLog' = Append(pushLog,
                        IF PushValue(d).threw
                        THEN [data |-> d, state |-> "threw",
                              notification |-> NoNotification]
                        ELSE [data |-> d, state |-> "showing",
                              notification |-> Notification(PushValue(d))])
    /\ UNCHANGED <<swVars, pageVars>>

\* showNotification resolves: the notification is on screen
PushShown ==
    /\ \E i \in 1..Len(pushLog) :
          /\ pushLog[i].state = "showing"
          /\ pushLog' = [pushLog EXCEPT ![i].state = "shown"]
    /\ UNCHANGED <<swVars, pageVars>>

\* the activated main worker, its generation installed
InitPush ==
    /\ variant = "main"
    /\ clock = FirstClock
    /\ CACHE_NAME = EvalCacheName("main", FirstClock)
    /\ cacheKeys = <<CACHE_NAME>>
    /\ \E v \in Vers :
          entries = AddAll([n \in Names |-> EmptyCache], CACHE_NAME,
                           MainUrlsToCache, v)
    /\ swState = "activated"
    /\ skipWaitingFlag = TRUE
    /\ installed = CACHE_NAME
    /\ toDelete = {}
    /\ req = [r \in Reqs |-> IdleReq]
    /\ pushLog = <<>>
    /\ PageAtRest

NextPush ==
    \/ PushEvent
    \/ PushShown

SpecPush == InitPush /\ [][NextPush]_vars

-----------------------------------------------------------------------------
(* Properties of the fetch handler *)

Handled(r) == req[r].by = "worker"

\* the network fetch of request r failed and the cache lookup had missed
MissedAndFailed(r) ==
    /\ req[r].pc = "done"
    /\ req[r].method = "GET"
    /\ req[r].cachedResponse = undefined
    /\ req[r].netFailed

\* C1: in the main worker, when the lookup of a GET request finds an entry
\* for its URL in the cache named CACHE_NAME, respondWith receives that entry
\* in the same step, while the network fetch is still outstanding, and
\* nothing the network does afterwards changes what the page received.
C1_StaleWhileRevalidate ==
    [][\A r \in Reqs :
          /\ ( /\ variant = "main"
               /\ req[r].pc = "match"
               /\ req'[r].pc # "match"
               /\ entries[CACHE_NAME][req[r].url] # undefined )
             => ( /\ req'[r].resp = entries[CACHE_NAME][req[r].url]
                  /\ req'[r].src = "cache"
                  /\ req'[r].net = undefined
                  /\ ~req'[r].netFailed )
          /\ (variant = "main" /\ req[r].src = "cache")
             => (req'[r].resp = req[r].resp /\ req'[r].src = "cache")]_vars

\* a request answered from the cache whose network fetch then failed
C1_Witness ==
    \E r \in Reqs :
        /\ variant = "main"
        /\ req[r].pc = "done"
        /\ req[r].netFailed
        /\ req[r].src = "cache"
        /\ req[r].resp = req[r].cachedResponse
        /\ req[r].resp # undefined

\* C2: once the install has succeeded (the worker is installed, activating
\* or activated) the cache named CACHE_NAME exists and holds every path of
\* urlsToCache.
C2_InstallAtomic ==
    swState \in {"installed", "activating", "deleting", "activated"}
        => /\ Has(cacheKeys, CACHE_NAME)
           /\ \A u \in Range(urlsToCache) : entries[CACHE_NAME][u] # undefined

\* C3: when the activate handler completes, Cache Storage holds exactly one
\* cache, the one named CACHE_NAME.
C3_OneGeneration ==
    [][(swState = "deleting" /\ swState' = "activated")
          => cacheKeys' = <<CACHE_NAME'>>]_vars

\* C4: a request whose method is not GET is not taken by the worker and is
\* never answered from a cache or with the offline page.
C4_NonGetPassThrough ==
    \A r \in Reqs :
        (req[r].pc # "idle" /\ req[r].method # "GET")
            => /\ ~Handled(r)
               /\ req[r].src \notin {"cache", "fallback"}

\* C5: a navigation GET request with no cache entry whose network fetch
\* failed is answered with the offline page.
C5_OfflineFallback ==
    \A r \in Reqs :
        (MissedAndFailed(r) /\ req[r].mode = "navigate")
            => /\ req[r].src = "fallback"
               /\ req[r].resp.url = OfflineUrl

\* C6: a non-navigation GET request with no cache entry whose network fetch
\* failed ends in failure: the page receives no response.
C6_FailurePropagates ==
    \A r \in Reqs :
        (MissedAndFailed(r) /\ req[r].mode # "navigate")
            => /\ req[r].src = "error"
               /\ req[r].resp = undefined

\* C7: while the worker is activated, an entry of a cache changes only by a
\* completing cache.put of a fetch handler, and the response it stores has
\* status 200 and is not opaque.
C7_WriteOnlyCacheable ==
    [][\A n \in Names, u \in Urls :
          (swState = "activated" /\ entries'[n][u] # entries[n][u])
             => \E r \in Reqs :
                   /\ req[r].pc = "put"
                   /\ req'[r].pc = "done"
                   /\ req[r].cache = n
                   /\ req[r].url = u
                   /\ entries'[n][u] = req[r].net
                   /\ req[r].net.status = 200
                   /\ req[r].net.type # "opaque"]_vars

\* the network answered with an opaque response and nothing was stored
C7_Witness ==
    \E r \in Reqs :
        /\ variant = "main"
        /\ req[r].pc = "done"
        /\ req[r].net.type = "opaque"
        /\ entries[req[r].cache][req[r].url] = undefined

\* C8 as stated: the main worker stores a copy of every status-200 response
\* that is not opaque (basic or cors).
C8_NonOpaqueStored ==
    \A r \in Reqs :
        ( /\ variant = "main"
          /\ req[r].pc = "done"
          /\ req[r].net.status = 200
          /\ req[r].net.type # "opaque" )
            => entries[req[r].cache][req[r].url] = req[r].net

\* C8 amended: the then branch of the main worker calls cache.put exactly
\* for the responses with status 200 and type basic, and a completing put
\* leaves that response in the cache it opened, under the request's URL.
C8_BasicStored ==
    [][\A r \in Reqs :
          /\ ( /\ req[r].pc \in {"background", "wait"}
               /\ req'[r].net # undefined )
             => ( req'[r].pc = "put"
                    <=> ( /\ req'[r].net.status = 200
                          /\ req'[r].net.type = "basic" ) )
          /\ (req[r].pc = "put" /\ req'[r].pc = "done")
             => ( /\ req[r].cache = CACHE_NAME
                  /\ entries'[CACHE_NAME][req[r].url] = req[r].net )]_vars

\* a status-200 basic response was stored under the request's URL
C8_Witness ==
    \E r \in Reqs :
        /\ variant = "main"
        /\ req[r].pc = "done"
        /\ Cacheable(req[r].net)
        /\ entries[req[r].cache][req[r].url] = req[r].net
        /\ req[r].cachedResponse # req[r].net

\* C10: after a failed install no cache named by that install's CACHE_NAME
\* is in Cache Storage (a name no earlier deployment had used).
C10_NoGenerationOnFailure ==
    (swState = "redundant" /\ CACHE_NAME \notin PreNames)
        => ~Has(cacheKeys, CACHE_NAME)

-----------------------------------------------------------------------------
(* Properties of the push handler *)

\* the payloads C9 is about: absent, not valid JSON, or the empty object
DefaultCase(d) ==
    \/ ~d.present
    \/ JsonParse(d.text).threw
    \/ d.text = "{}"

DefaultNotification ==
    [title |-> "Kukaya", body |-> "New notification", icon |-> "/favicon.ico"]

\* C9: a push event whose payload is absent, malformed or {} never makes the
\* handler throw, and the notification it shows is the default one.
C9_PushDefaults ==
    \A i \in 1..Len(pushLog) :
        DefaultCase(pushLog[i].data)
            => /\ pushLog[i].state # "threw"
               /\ pushLog[i].notification = DefaultNotification

-----------------------------------------------------------------------------
(* activate run a second time *)

\* the activate handler is run again on the activated worker, with no
\* install in between
ActivateAgainEvent ==
    /\ swState = "activated"
    /\ swState' = "reactivating"
    /\ UNCHANGED <<variant, clock, CACHE_NAME, cacheKeys, entries,
                   skipWaitingFlag, installed, toDelete, req>>
    /\ UNCHANGED <<pushVars, pageVars>>

\* caches.keys() resolves; the filter selects the names to delete
ActivateAgainKeys ==
    /\ swState = "reactivating"
    /\ toDelete' = OldCaches(cacheKeys, CACHE_NAME)
    /\ swState' = "redeleting"
    /\ UNCHANGED <<variant, clock, CACHE_NAME, cacheKeys, entries,
                   skipWaitingFlag, installed, req>>
    /\ UNCHANGED <<pushVars, pageVars>>

\* one caches.delete(name) resolves
ActivateAgainDelete ==
    /\ swState = "redeleting"
    /\ \E n \in toDelete :
          /\ cacheKeys' = CachesDelete(cacheKeys, n)
          /\ entries' = [entries EXCEPT ![n] = EmptyCache]
          /\ toDelete' = toDelete \ {n}
    /\ UNCHANGED <<variant, clock, CACHE_NAME, swState, skipWaitingFlag,
                   installed, req>>
    /\ UNCHANGED <<pushVars, pageVars>>

\* Promise.all resolves
ActivateAgainDone ==
    /\ swState = "redeleting"
    /\ toDelete = {}
    /\ swState' = "activated"
    /\ UNCHANGED <<variant, clock, CACHE_NAME, cacheKeys, entries,
                   skipWaitingFlag, installed, toDelete, req>>
    /\ UNCHANGED <<pushVars, pageVars>>

NextAgain ==
    \/ InstallEvent
    \/ InstallOpen
    \/ InstallAddAllOk
    \/ InstallAddAllFail
    \/ ActivateEvent
    \/ ActivateKeys
    \/ ActivateDelete
    \/ ActivateDone
    \/ Restart
    \/ Retry
    \/ \E r \in Reqs : FetchEvent(r)
    \/ \E r \in Reqs : PassThrough(r)
    \/ \E r \in Reqs : FetchOpen(r)
    \/ \E r \in Reqs : FetchMatch(r)
    \/ \E r \in Reqs : FetchThen(r)
    \/ \E r \in Reqs : FetchCatch(r)
    \/ \E r \in Reqs : FetchPut(r)
    \/ \E r \in Reqs : PwaFetchEvent(r)
    \/ \E r \in Reqs : PwaMatch(r)
    \/ \E r \in Reqs : PwaThen(r)
    \/ \E r \in Reqs : PwaCatch(r)
    \/ ActivateAgainEvent
    \/ ActivateAgainKeys
    \/ ActivateAgainDelete
    \/ ActivateAgainDone

SpecAgain == Init /\ [][NextAgain]_vars

\* C11: a second run of the activate handler, with no install since the
\* first, removes no cache and changes no entry: every cache in storage when
\* it starts is still there, with the same entries, at each of its steps.
C11_ActivateIdempotent ==
    [][(swState \in {"reactivating", "redeleting"})
          => ( /\ \A n \in Names : Has(cacheKeys, n) => Has(cacheKeys', n)
               /\ (swState' = "redeleting" /\ swState = "reactivating")
                     => (toDelete' = {}) )]_vars

-----------------------------------------------------------------------------
(* Liveness of the worker *)

\* the steps the event loop takes by itself: a dispatched lifecycle event
\* runs its handler and every promise a handler waits for settles
Progress ==
    \/ InstallEvent
    \/ InstallOpen
    \/ InstallAddAllOk
    \/ InstallAddAllFail
    \/ ActivateEvent
    \/ ActivateKeys
    \/ ActivateDelete
    \/ ActivateDone
    \/ \E r \in Reqs : PassThrough(r)
    \/ \E r \in Reqs : FetchOpen(r)
    \/ \E r \in Reqs : FetchMatch(r)
    \/ \E r \in Reqs : FetchThen(r)
    \/ \E r \in Reqs : FetchCatch(r)
    \/ \E r \in Reqs : FetchPut(r)
    \/ \E r \in Reqs : PwaMatch(r)
    \/ \E r \in Reqs : PwaThen(r)
    \/ \E r \in Reqs : PwaCatch(r)

SpecLive == Init /\ [][Next]_vars /\ WF_vars(Progress)

\* C12: every cache whose name differs from the current generation's
\* CACHE_NAME is eventually deleted: once the worker is activated, no such
\* cache stays in Cache Storage forever.
C12_OldGenerationsRemoved ==
    \A n \in Names :
        (swState = "activated" /\ Has(cacheKeys, n) /\ n # CACHE_NAME)
            ~> ~Has(cacheKeys, n)

\* C13: when the network fetch of a request the worker answers fails, the
\* page still receives a defined response whenever the lookup had found an
\* entry, or the request is a navigation and /offline.html is in a cache; a
\* failure reaches the page only when neither is the case.
C13_FailureOnlyWhenNothingCached ==
    [][\A r \in Reqs :
          (Handled(r) /\ ~req[r].netFailed /\ req'[r].netFailed)
             => ( ( \/ req'[r].cachedResponse # undefined
                    \/ /\ req[r].mode = "navigate"
                       /\ CachesMatch(cacheKeys, entries, OfflineUrl, "GET")
                             # undefined )
                  => ( /\ req'[r].resp # undefined
                       /\ req'[r].src # "error" ) )]_vars

\* a navigation of the main worker that missed the cache, lost the network
\* and received the offline page
C13_Witness ==
    \E r \in Reqs :
        /\ variant = "main"
        /\ req[r].pc = "done"
        /\ req[r].netFailed
        /\ req[r].cachedResponse = undefined
        /\ req[r].mode = "navigate"
        /\ req[r].src = "fallback"
        /\ req[r].resp.url = OfflineUrl

-----------------------------------------------------------------------------
(* Two requests handled by the activated main worker *)

RaceReqs == {1, 2}

\* the main worker after a successful install and activate
InitRace ==
    /\ variant = "main"
    /\ clock = FirstClock
    /\ CACHE_NAME = EvalCacheName("main", FirstClock)
    /\ cacheKeys = <<CACHE_NAME>>
    /\ \E v \in Vers :
          entries = AddAll([n \in Names |-> EmptyCache], CACHE_NAME,
                           MainUrlsToCache, v)
    /\ swState = "activated"
    /\ skipWaitingFlag = TRUE
    /\ installed = CACHE_NAME
    /\ toDelete = {}
    /\ req = [r \in RaceReqs |-> IdleReq]
    /\ pushLog = <<>>
    /\ PageAtRest

NextRace ==
    \/ Restart
    \/ \E r \in RaceReqs : FetchEvent(r)
    \/ \E r \in RaceReqs : PassThrough(r)
    \/ \E r \in RaceReqs : FetchOpen(r)
    \/ \E r \in RaceReqs : FetchMatch(r)
    \/ \E r \in RaceReqs : FetchThen(r)
    \/ \E r \in RaceReqs : FetchCatch(r)
    \/ \E r \in RaceReqs : FetchPut(r)

SpecRace == InitRace /\ [][NextRace]_vars

\* C14: a request answered from the cache has its answer before the write;
\* the cache.put of the status-200 basic response its background fetch
\* brought is carried through, never abandoned; and a request for the same
\* URL issued after that write is answered with the written response.
C14_Revalidation ==
    [][\A r \in RaceReqs :
          /\ (req[r].pc = "put" /\ req[r].src = "cache")
                => ( /\ req[r].resp = req[r].cachedResponse
                     /\ req'[r].pc \in {"put", "done"} )
          /\ \A k \in req[r].issuedAfter :
                ( /\ req[r].pc = "match"
                  /\ req'[r].pc # "match"
                  /\ req[k].url = req[r].url )
                => req'[r].resp = req[k].net]_vars

\* C15: for every GET request a worker answers, fetch(event.request) is not
\* called before the cache lookup has been made, and it has been called
\* whenever the page has its answer, whether or not the lookup hit.
C15_LookupThenFetch ==
    \A r \in Reqs :
        (Handled(r) /\ req[r].method = "GET")
            => /\ req[r].pc \in {"open", "match", "pwamatch"}
                    => ~req[r].fetched
               /\ req[r].src # "none" => req[r].fetched

\* C16: with two requests in flight, each completing cache.put leaves under
\* the request's URL exactly the response that put carried, and an entry
\* changes by nothing but a completing put: after both puts the entry is the
\* response of the put that completed last, never absent and never mixed.
C16_LastWriterWins ==
    [][\A n \in Names, u \in Urls :
          /\ \A r \in RaceReqs :
                ( /\ req[r].pc = "put"
                  /\ req'[r].pc = "done"
                  /\ req[r].cache = n
                  /\ req[r].url = u )
                => ( /\ entries'[n][u] = req[r].net
                     /\ entries'[n][u] # undefined )
          /\ (entries'[n][u] # entries[n][u])
                => \E r \in RaceReqs :
                      /\ req[r].pc = "put"
                      /\ req'[r].pc = "done"
                      /\ req[r].cache = n
                      /\ req[r].url = u]_vars

\* two requests for one URL made the same lookup, fetched different
\* cacheable responses, and the cache holds the one that was put last
C16_Witness ==
    \E r1 \in RaceReqs, r2 \in RaceReqs :
        /\ r1 # r2
        /\ req[r1].pc = "done"
        /\ req[r2].pc = "done"
        /\ req[r1].url = req[r2].url
        /\ req[r1].cache = req[r2].cache
        /\ req[r1].cachedResponse = req[r2].cachedResponse
        /\ Cacheable(req[r1].net)
        /\ Cacheable(req[r2].net)
        /\ req[r1].net # req[r2].net
        /\ req[r1].net # req[r1].cachedResponse
        /\ entries[req[r2].cache][req[r2].url] = req[r2].net

\* C17: once the main worker's install has succeeded, a GET request for a
\* path of urlsToCache whose network fetch fails is answered from the cache
\* with the entry of that path.
C17_AssetsServableOffline ==
    \A r \in Reqs :
        ( /\ variant = "main"
          /\ installed # <<>>
          /\ req[r].pc = "done"
          /\ req[r].method = "GET"
          /\ req[r].url \in Range(MainUrlsToCache)
          /\ req[r].netFailed )
            => /\ req[r].src = "cache"
               /\ req[r].resp # undefined
               /\ req[r].resp.url = req[r].url

-----------------------------------------------------------------------------
(* js/api.js: authFetch, verifyOtp, tryRefresh, logout *)

\* if (token) headers['Authorization'] = `Bearer ${token}`
AuthHeader(token) == IF token # NoItem THEN token ELSE NoHeader

\* function logout(){ const token = localStorage.getItem('access'); }
\* the storage it leaves
Logout(ls) == ls

AuthFetchAtRest == af.pc \in {"idle", "returned", "threw"}

\* verifyOtp(phone, code): the server accepts and both tokens are stored (an
\* answer that is not ok returns false and stores nothing)
VerifyOtp ==
    /\ AuthFetchAtRest
    /\ \E a \in AccessTokens, r \in RefreshTokens :
          localStorage' = [access |-> a, refresh |-> r]
    /\ loggedOut' = FALSE
    /\ UNCHANGED <<af, authVars, swVars, pushVars>>

\* authFetch(path, options) is called: the token is read, the header set and
\* the request sent
AuthFetch ==
    /\ AuthFetchAtRest
    /\ af' = [pc |-> "fetch", auth |-> AuthHeader(localStorage.access),
              result |-> "none"]
    /\ UNCHANGED <<localStorage, loggedOut, authVars, swVars, pushVars>>

\* the response is not a 401: res.ok ? await res.json() : null
AuthFetchOk ==
    /\ af.pc = "fetch"
    /\ \E ok \in BOOLEAN :
          af' = [af EXCEPT !.pc = "returned",
                           !.result = IF ok THEN "json" ELSE "null"]
    /\ UNCHANGED <<localStorage, loggedOut, authVars, swVars, pushVars>>

\* fetch rejects, or res.json() does: authFetch rejects with that error
AuthFetchRejects ==
    /\ af.pc = "fetch"
    /\ af' = [af EXCEPT !.pc = "threw", !.result = "NetworkError"]
    /\ UNCHANGED <<localStorage, loggedOut, authVars, swVars, pushVars>>

\* res.status === 401: tryRefresh() is called; without a refresh token it
\* returns false at once, then logout() and throw
AuthFetchUnauthorized ==
    /\ af.pc = "fetch"
    /\ IF localStorage.refresh = NoItem
       THEN /\ localStorage' = Logout(localStorage)
            /\ loggedOut' = TRUE
            /\ af' = [af EXCEPT !.pc = "threw", !.result = "Unauthorized"]
       ELSE /\ af' = [af EXCEPT !.pc = "refresh"]
            /\ UNCHANGED <<localStorage, loggedOut>>
    /\ UNCHANGED <<authVars, swVars, pushVars>>

\* the refresh request is answered ok: the new access token is stored,
\* tryRefresh returns true and authFetch(path, options) is called again
TryRefreshOk ==
    /\ af.pc = "refresh"
    /\ \E a \in AccessTokens :
          /\ localStorage' = [localStorage EXCEPT !.access = a]
          /\ af' = [pc |-> "fetch", auth |-> AuthHeader(a), result |-> "none"]
    /\ UNCHANGED <<loggedOut, authVars, swVars, pushVars>>

\* the refresh request is answered not ok or fails: tryRefresh returns
\* false, then logout() and throw new Error('Unauthorized')
TryRefreshFail ==
    /\ af.pc = "refresh"
    /\ localStorage' = Logout(localStorage)
    /\ loggedOut' = TRUE
    /\ af' = [af EXCEPT !.pc = "threw", !.result = "Unauthorized"]
    /\ UNCHANGED <<authVars, swVars, pushVars>>

\* the page calls logout()
ApiLogout ==
    /\ AuthFetchAtRest
    /\ ~loggedOut
    /\ localStorage' = Logout(localStorage)
    /\ loggedOut' = TRUE
    /\ UNCHANGED <<af, authVars, swVars, pushVars>>

-----------------------------------------------------------------------------
(* pwa/js/auth.js: verifyOTP, adminLogin, getCurrentUser, logout *)

LoginFns == {"verifyOTP", "adminLogin"}

AuthCallAtRest == authCall.pc \in {"idle", "done"}

\* verifyOTP(phone, otp) or adminLogin(phone, password) is called: apiFetch
\* posts the credentials
LoginCall ==
    /\ AuthCallAtRest
    /\ \E f \in LoginFns :
          authCall' = [fn |-> f, pc |-> "post", result |-> "none",
                       profile |-> "none"]
    /\ UNCHANGED <<currentUser, location, apiVars, swVars, pushVars>>

\* data && data.ok && data.user: getCurrentUser() is called
LoginAccepted ==
    /\ authCall.fn \in LoginFns
    /\ authCall.pc = "post"
    /\ authCall' = [authCall EXCEPT !.pc = "profile"]
    /\ UNCHANGED <<currentUser, location, apiVars, swVars, pushVars>>

\* the login is not accepted: the answer is not ok, or a 401 (apiFetch
\* redirects and returns null, data.error throws), or fetch rejects
LoginRejected ==
    /\ authCall.fn \in LoginFns
    /\ authCall.pc = "post"
    /\ \E why \in {"not ok", "401", "network"} :
          location' = IF why = "401" THEN "../index.html" ELSE location
    /\ authCall' = [authCall EXCEPT !.pc = "done", !.result = "failure"]
    /\ UNCHANGED <<currentUser, apiVars, swVars, pushVars>>

\* a page calls getCurrentUser() when it loads
GetCurrentUserCall ==
    /\ AuthCallAtRest
    /\ authCall' = [fn |-> "getCurrentUser", pc |-> "profile",
                    result |-> "none", profile |-> "none"]
    /\ UNCHANGED <<currentUser, location, apiVars, swVars, pushVars>>

\* what a login function returns once the getCurrentUser() it awaited has
\* returned: return { success: true, user: data.user }
AfterProfile(fn, profile) == IF fn \in LoginFns THEN "success" ELSE "none"

\* getCurrentUser() finishes: the profile has a user and the page shows it;
\* or the answer has no user, is a 401, fetch rejects, or an element of the
\* account panel is missing, and currentUser is null and the page redirected
GetCurrentUserDone ==
    /\ authCall.pc = "profile"
    /\ \/ \E u \in Users :
             /\ currentUser' = u
             /\ authCall' = [authCall EXCEPT
                                !.pc = "done", !.profile = "ok",
                                !.result = AfterProfile(authCall.fn, "ok")]
             /\ UNCHANGED location
       \/ /\ currentUser' = NoUser
          /\ location' = "../index.html"
          /\ authCall' = [authCall EXCEPT
                             !.pc = "done", !.profile = "failed",
                             !.result = AfterProfile(authCall.fn, "failed")]
    /\ UNCHANGED <<apiVars, swVars, pushVars>>

\* logout() is called: apiFetch posts to /auth/logout/
LogoutCall ==
    /\ AuthCallAtRest
    /\ authCall' = [fn |-> "logout", pc |-> "post", result |-> "none",
                    profile |-> "none"]
    /\ UNCHANGED <<currentUser, location, apiVars, swVars, pushVars>>

\* the request succeeds, is answered 401 or fails; finally runs
LogoutDone ==
    /\ authCall.fn = "logout"
    /\ authCall.pc = "post"
    /\ \E outcome \in {"ok", "401", "network"} :
          /\ currentUser' = NoUser
          /\ location' = "../index.html"
    /\ authCall' = [authCall EXCEPT !.pc = "done"]
    /\ UNCHANGED <<apiVars, swVars, pushVars>>

-----------------------------------------------------------------------------
(* The pages' scripts as one system *)

\* a page with both scripts loaded; localStorage keeps what an earlier
\* visit stored
InitAuth ==
    /\ variant = "main"
    /\ clock = FirstClock
    /\ CACHE_NAME = EvalCacheName("main", FirstClock)
    /\ cacheKeys = <<>>
    /\ entries = [n \in Names |-> EmptyCache]
    /\ swState = "parsed"
    /\ skipWaitingFlag = FALSE
    /\ installed = <<>>
    /\ toDelete = {}
    /\ req = [r \in Reqs |-> IdleReq]
    /\ pushLog = <<>>
    /\ localStorage \in [access : AccessTokens \cup {NoItem},
                         refresh : RefreshTokens \cup {NoItem}]
    /\ af = NoAuthFetch
    /\ loggedOut = FALSE
    /\ currentUser = NoUser
    /\ authCall = NoAuthCall
    /\ location = "page"

NextAuth ==
    \/ VerifyOtp
    \/ AuthFetch
    \/ AuthFetchOk
    \/ AuthFetchRejects
    \/ AuthFetchUnauthorized
    \/ TryRefreshOk
    \/ TryRefreshFail
    \/ ApiLogout
    \/ LoginCall
    \/ LoginAccepted
    \/ LoginRejected
    \/ GetCurrentUserCall
    \/ GetCurrentUserDone
    \/ LogoutCall
    \/ LogoutDone

SpecAuth == InitAuth /\ [][NextAuth]_vars

\* js/api.js by itself
NextApi ==
    \/ VerifyOtp
    \/ AuthFetch
    \/ AuthFetchOk
    \/ AuthFetchRejects
    \/ AuthFetchUnauthorized
    \/ TryRefreshOk
    \/ TryRefreshFail
    \/ ApiLogout

\* every request authFetch or tryRefresh awaits is answered or fails
AwaitSettles ==
    \/ AuthFetchOk
    \/ AuthFetchRejects
    \/ AuthFetchUnauthorized
    \/ TryRefreshOk
    \/ TryRefreshFail

SpecApiLive == InitAuth /\ [][NextApi]_vars /\ WF_vars(AwaitSettles)

-----------------------------------------------------------------------------
(* Properties of the pages' scripts *)

\* C18: every call of authFetch ends: it returns a value or throws after
\* finitely many requests and token refreshes, whatever the server answers.
C18_AuthFetchTerminates ==
    (af.pc \in {"fetch", "refresh"}) ~> (af.pc \in {"returned", "threw"})

\* C19: when verifyOTP or adminLogin has returned { success: true }, the
\* getCurrentUser() call it made succeeded and currentUser is not null.
C19_SuccessMeansConfirmed ==
    ( /\ authCall.fn \in LoginFns
      /\ authCall.pc = "done"
      /\ authCall.result = "success" )
        => /\ authCall.profile = "ok"
           /\ currentUser # NoUser

\* C20: once logout() of auth.js has completed, currentUser is null; once
\* logout() of js/api.js has completed, neither 'access' nor 'refresh' is
\* in localStorage and an authFetch sent afterwards carries no
\* Authorization header.
C20_SessionDropped ==
    /\ (authCall.fn = "logout" /\ authCall.pc = "done")
          => currentUser = NoUser
    /\ loggedOut
          => /\ localStorage.access = NoItem
             /\ localStorage.refresh = NoItem
             /\ af.pc = "fetch" => af.auth = NoHeader

====
